---- MODULE Spec2Model ----
(***************************************************************************)
(* One page render of app/app.py (a Streamlit script run top to bottom):   *)
(* the four input files, the loaders, the three shapers (prep_bls,         *)
(* prep_lottery, prep_crypto), the concentration selector and the          *)
(* elements each section puts on the page.                                 *)
(*                                                                         *)
(* Text (column names, labels, file cells) is a sequence of one-character  *)
(* strings, so that strip(), lower() and numeric parsing are computed.     *)
(* Numbers are exact rationals [n, d] in lowest terms.                     *)
(***************************************************************************)
EXTENDS Integers, Sequences, FiniteSets, TLC

(***************************************************************************)
(* Bounds of the model.                                                    *)
(***************************************************************************)
MaxRows == 3

(***************************************************************************)
(* Text helpers: str.strip, str.lower.                                     *)
(***************************************************************************)
Whitespace == {" ", "\t"}

RECURSIVE LStrip(_)
LStrip(s) == IF s # <<>> /\ Head(s) \in Whitespace THEN LStrip(Tail(s)) ELSE s

RECURSIVE RStrip(_)
RStrip(s) ==
    IF s # <<>> /\ s[Len(s)] \in Whitespace
    THEN RStrip(SubSeq(s, 1, Len(s) - 1))
    ELSE s

Strip(s) == RStrip(LStrip(s))

UpperAlphabet ==
    <<"A","B","C","D","E","F","G","H","I","J","K","L","M",
      "N","O","P","Q","R","S","T","U","V","W","X","Y","Z">>

LowerAlphabet ==
    <<"a","b","c","d","e","f","g","h","i","j","k","l","m",
      "n","o","p","q","r","s","t","u","v","w","x","y","z">>

LowerChar(c) ==
    IF \E i \in 1..Len(UpperAlphabet) : UpperAlphabet[i] = c
    THEN LowerAlphabet[CHOOSE i \in 1..Len(UpperAlphabet) : UpperAlphabet[i] = c]
    ELSE c

Lower(s) == [i \in 1..Len(s) |-> LowerChar(s[i])]

(***************************************************************************)
(* Numbers: exact rationals in lowest terms, and the parsing of an         *)
(* unsigned decimal literal (digits with at most one point).               *)
(***************************************************************************)
RECURSIVE GCD(_, _)
GCD(a, b) == IF b = 0 THEN a ELSE GCD(b, a % b)

Digits == <<"0","1","2","3","4","5","6","7","8","9">>

IsDigit(c) == \E i \in 1..Len(Digits) : Digits[i] = c

DigitVal(c) == (CHOOSE i \in 1..Len(Digits) : Digits[i] = c) - 1

RECURSIVE IntOf(_)
IntOf(s) ==
    IF s = <<>> THEN 0
    ELSE IntOf(SubSeq(s, 1, Len(s) - 1)) * 10 + DigitVal(s[Len(s)])

RECURSIVE Pow10(_)
Pow10(k) == IF k = 0 THEN 1 ELSE 10 * Pow10(k - 1)

IsNumeric(s) ==
    /\ \A i \in 1..Len(s) : IsDigit(s[i]) \/ s[i] = "."
    /\ \E i \in 1..Len(s) : IsDigit(s[i])
    /\ Cardinality({i \in 1..Len(s) : s[i] = "."}) <= 1

(***************************************************************************)
(* Cell values of a DataFrame: NaN, a number, or text.                     *)
(***************************************************************************)
NaN == [k |-> "nan", n |-> 0, d |-> 1, s |-> <<>>]

Num(a, b) ==
    LET g == GCD(a, b)
    IN  [k |-> "num", n |-> a \div g, d |-> b \div g, s |-> <<>>]

Str(t) == [k |-> "str", n |-> 0, d |-> 1, s |-> t]

isna(v) == v.k = "nan"

ParseNum(s) ==
    LET dots == {i \in 1..Len(s) : s[i] = "."}
        dot  == IF dots = {} THEN Len(s) + 1 ELSE CHOOSE i \in dots : TRUE
        int  == SubSeq(s, 1, dot - 1)
        frac == SubSeq(s, dot + 1, Len(s))
    IN  Num(IntOf(int \o frac), Pow10(Len(frac)))

\* pd.to_numeric(..., errors="coerce") on one value
to_numeric(v) ==
    IF v.k = "str"
    THEN IF IsNumeric(v.s) THEN ParseNum(v.s) ELSE NaN
    ELSE v

NumLess(a, b) == a.n * b.d < b.n * a.d

NumSub(a, b) == Num(a.n * b.d - b.n * a.d, a.d * b.d)

NumDiv(a, b) == Num(a.n * b.d, a.d * b.n)

(***************************************************************************)
(* DataFrames: column names, the row index labels and the rows (each a     *)
(* sequence of values aligned with the columns).                           *)
(***************************************************************************)
DataFrame(cols, idx, rows) == [columns |-> cols, index |-> idx, data |-> rows]

EmptyDataFrame == DataFrame(<<>>, <<>>, <<>>)

empty(df) == Len(df.columns) = 0 \/ Len(df.data) = 0

HasCol(df, name) == \E j \in 1..Len(df.columns) : df.columns[j] = name

ColPos(df, name) ==
    CHOOSE j \in 1..Len(df.columns) :
        /\ df.columns[j] = name
        /\ \A h \in 1..(j - 1) : df.columns[h] # name

Col(df, name) == [i \in 1..Len(df.data) |-> df.data[i][ColPos(df, name)]]

\* df[name] = vals: replaces the column, or appends it as the last column
SetCol(df, name, vals) ==
    IF HasCol(df, name)
    THEN DataFrame(df.columns, df.index,
             [i \in 1..Len(df.data) |->
                 [j \in 1..Len(df.columns) |->
                     IF j = ColPos(df, name) THEN vals[i] ELSE df.data[i][j]]])
    ELSE DataFrame(Append(df.columns, name), df.index,
             [i \in 1..Len(df.data) |-> Append(df.data[i], vals[i])])

\* df.rename(columns=mapping): mapping is a set of <<old, new>> pairs
rename(df, mapping) ==
    DataFrame(
        [j \in 1..Len(df.columns) |->
            IF \E p \in mapping : p[1] = df.columns[j]
            THEN (CHOOSE p \in mapping : p[1] = df.columns[j])[2]
            ELSE df.columns[j]],
        df.index, df.data)

\* the rows at the given positions, in that order, with their index labels
Take(df, positions) ==
    DataFrame(df.columns,
        [i \in 1..Len(positions) |-> df.index[positions[i]]],
        [i \in 1..Len(positions) |-> df.data[positions[i]]])

RECURSIVE PositionsWhere(_, _)
PositionsWhere(mask, upto) ==
    IF upto = 0 THEN <<>>
    ELSE IF mask[upto]
         THEN Append(PositionsWhere(mask, upto - 1), upto)
         ELSE PositionsWhere(mask, upto - 1)

\* df[mask]: boolean indexing keeps the rows in their order
Filter(df, mask) == Take(df, PositionsWhere(mask, Len(df.data)))

\* df[[names]]: the named columns, in the order asked
Select(df, names) ==
    DataFrame(names, df.index,
        [i \in 1..Len(df.data) |->
            [j \in 1..Len(names) |-> df.data[i][ColPos(df, names[j])]]])

\* df.dropna(subset=names)
dropna(df, names) ==
    Filter(df, [i \in 1..Len(df.data) |->
                   \A j \in 1..Len(names) : ~isna(Col(df, names[j])[i])])

\* the positions of the NaN keys in their order, and of the others
NaNPositions(keys) == PositionsWhere([i \in 1..Len(keys) |-> isna(keys[i])], Len(keys))

\* the sort with the NaN keys first (na_position="first")
sort_values_na_first(df, keys) ==
    LET nans  == NaNPositions(keys)
        rest  == {i \in 1..Len(keys) : ~isna(keys[i])}
        m     == Cardinality(rest)
        perms == {p \in [1..m -> rest] :
                     /\ \A a, b \in 1..m : a # b => p[a] # p[b]
                     /\ \A a, b \in 1..m : a < b => ~NumLess(keys[p[b]], keys[p[a]])}
    IN  {Take(df, nans \o p) : p \in perms}

\* df.sort_values(...) on the given sort keys (the numbers of a numeric
\* column, the codes of a categorical one): ascending, NaN keys last in
\* their original order (nargsort appends the NaN positions unsorted); the
\* default kind is quicksort, which is not stable, so rows with equal keys
\* may come out in any order: the result is the set of the orders the sort
\* may produce.
sort_values(df, keys) ==
    LET nans  == NaNPositions(keys)
        rest  == {i \in 1..Len(keys) : ~isna(keys[i])}
        m     == Cardinality(rest)
        perms == {p \in [1..m -> rest] :
                     /\ \A a, b \in 1..m : a # b => p[a] # p[b]
                     /\ \A a, b \in 1..m : a < b => ~NumLess(keys[p[b]], keys[p[a]])}
    IN  {Take(df, p \o nans) : p \in perms}

(***************************************************************************)
(* Column names and labels of the source.                                  *)
(***************************************************************************)
age_group == <<"a","g","e","_","g","r","o","u","p">>
avg_annual_spend_usd == <<"a","v","g","_","a","n","n","u","a","l","_","s","p","e","n","d","_","u","s","d">>
year_col == <<"y","e","a","r">>
source_col == <<"s","o","u","r","c","e">>
under30_lottery_pct == <<"u","n","d","e","r","3","0","_","l","o","t","t","e","r","y","_","p","c","t">>
under30_crypto_pct == <<"u","n","d","e","r","3","0","_","c","r","y","p","t","o","_","p","c","t">>
top_0_01_pct_ownership == <<"t","o","p","_","0","_","0","1","_","p","c","t","_","o","w","n","e","r","s","h","i","p">>
AgeGroup == <<"A","g","e","G","r","o","u","p">>
AvgAnnualSpend == <<"A","v","g","A","n","n","u","a","l","S","p","e","n","d">>
AvgMonthlySpend == <<"A","v","g","M","o","n","t","h","l","y","S","p","e","n","d">>
Year == <<"Y","e","a","r">>
Source == <<"S","o","u","r","c","e">>
Under30LotteryPct == <<"U","n","d","e","r","3","0","L","o","t","t","e","r","y","P","c","t">>
Under30CryptoPct == <<"U","n","d","e","r","3","0","C","r","y","p","t","o","P","c","t">>
all_ages == <<"a","l","l"," ","a","g","e","s">>

age_order ==
    << <<"U","n","d","e","r"," ","2","5">>,
       <<"2","5","-","3","4">>,
       <<"3","5","-","4","4">>,
       <<"4","5","-","5","4">>,
       <<"5","5","-","6","4">>,
       <<"6","5","-","7","4">>,
       <<"7","5","+">> >>

(***************************************************************************)
(* Cell texts of the input files.                                          *)
(***************************************************************************)
Under25 == <<"U","n","d","e","r"," ","2","5">>
Age25to34 == <<"2","5","-","3","4">>
Age75plus == <<"7","5","+">>
Age18to24 == <<"1","8","-","2","4">>
AllAgesTitle == <<"A","l","l"," ","a","g","e","s">>
AllAgesUpper == <<"A","L","L"," ","A","G","E","S">>
AllAgesMixed == <<"a","l","l"," ","A","g","e","s">>
d483_84 == <<"4","8","3",".","8","4">>
d90_6 == <<"9","0",".","6">>
d500_0 == <<"5","0","0",".","0">>
d27_5 == <<"2","7",".","5">>
d1_1 == <<"1",".","1">>
d2003 == <<"2","0","0","3">>
d2007 == <<"2","0","0","7">>
d2015 == <<"2","0","1","5">>
d2016 == <<"2","0","1","6">>
d2017 == <<"2","0","1","7">>
d2018 == <<"2","0","1","8">>
d2024 == <<"2","0","2","4">>
d36 == <<"3","6">>
d57 == <<"5","7">>
d61 == <<"6","1">>
d28 == <<"2","8">>
d2 == <<"2">>
abc == <<"a","b","c">>
BLS == <<"B","L","S">>
Gallup == <<"G","a","l","l","u","p">>
Pew == <<"P","e","w">>
Finder == <<"F","i","n","d","e","r">>
Gemini == <<"G","e","m","i","n","i">>

(***************************************************************************)
(* Input files.  A file is absent, zero bytes long, not parseable as       *)
(* delimited text, or a table: a header line and rows of text cells.       *)
(***************************************************************************)
Datasets == {"crypto", "lottery", "bls", "conc"}

Absent == [kind |-> "absent", header |-> <<>>, rows |-> <<>>]
ZeroByte == [kind |-> "zero_byte", header |-> <<>>, rows |-> <<>>]
Unparseable == [kind |-> "unparseable", header |-> <<>>, rows |-> <<>>]
TableFile(header, rows) == [kind |-> "table", header |-> header, rows |-> rows]

\* pd.read_csv: raises on an absent, empty or unparseable file; otherwise the
\* header gives the column names as written, an empty cell is NaN, and a
\* column whose cells are all numbers or empty is numeric, any other is text.
read_csv(file) ==
    IF file.kind # "table"
    THEN [raised |-> TRUE, df |-> EmptyDataFrame]
    ELSE LET numeric(j) ==
                 \A i \in 1..Len(file.rows) :
                     file.rows[i][j] = <<>> \/ IsNumeric(file.rows[i][j])
             value(i, j) ==
                 IF file.rows[i][j] = <<>> THEN NaN
                 ELSE IF numeric(j) THEN ParseNum(file.rows[i][j])
                 ELSE Str(file.rows[i][j])
         IN  [raised |-> FALSE,
              df |-> DataFrame(file.header,
                         [i \in 1..Len(file.rows) |-> i - 1],
                         [i \in 1..Len(file.rows) |->
                             [j \in 1..Len(file.header) |-> value(i, j)]])]

\* an element shown on the page: the section that shows it, its kind, and
\* the dataset it is about ("" for static content)
El(sec, kind, of) == [sec |-> sec, kind |-> kind, of |-> of]

\* load_csv_safe with a silent except branch
load_csv_safe_silent(file, d) ==
    LET r == read_csv(file)
    IN  IF r.raised
        THEN [df |-> EmptyDataFrame, shown |-> <<>>]
        ELSE [df |-> DataFrame([j \in 1..Len(r.df.columns) |-> Strip(r.df.columns[j])],
                               r.df.index, r.df.data),
              shown |-> <<>>]

\* load_csv_safe: the table with stripped column names, or an empty table
\* and an st.error
load_csv_safe(file, d) ==
    LET r == read_csv(file)
    IN  IF r.raised
        THEN [df |-> EmptyDataFrame, shown |-> <<El("load", "error", d)>>]
        ELSE [df |-> DataFrame([j \in 1..Len(r.df.columns) |-> Strip(r.df.columns[j])],
                               r.df.index, r.df.data),
              shown |-> <<>>]

\* load_concentration: the table as read, or an empty table and an st.warning
load_concentration(file) ==
    LET r == read_csv(file)
    IN  IF r.raised
        THEN [df |-> EmptyDataFrame, shown |-> <<El("concentration", "warning", "conc")>>]
        ELSE [df |-> r.df, shown |-> <<>>]

(***************************************************************************)
(* Shapers.  A shaper returns the set of its possible outcomes (the sort   *)
(* is not stable); an outcome is a table, or the exception raised.         *)
(***************************************************************************)
Ok(df) == [raised |-> "", df |-> df]

Raise(e) == [raised |-> e, df |-> EmptyDataFrame]

\* Series.str.lower(): NaN stays NaN
str_lower(v) == IF v.k = "str" THEN Str(Lower(v.s)) ELSE NaN

\* the .str accessor exists on a text column only
HasStrAccessor(df, name) == \E i \in 1..Len(df.data) : Col(df, name)[i].k = "str"

\* pd.Categorical(vals, categories): a value outside the categories is NaN
Categorical(vals, categories) ==
    [i \in 1..Len(vals) |->
        IF vals[i].k = "str" /\ \E c \in 1..Len(categories) : categories[c] = vals[i].s
        THEN vals[i]
        ELSE NaN]

\* the codes of a categorical column: the position of the category, NaN for NaN
codes(vals, categories) ==
    [i \in 1..Len(vals) |->
        IF isna(vals[i]) THEN NaN
        ELSE Num(CHOOSE c \in 1..Len(categories) : categories[c] = vals[i].s, 1)]

\* the filter without .str.lower()
DropAllAges_case_sensitive(df) ==
    IF HasCol(df, AgeGroup)
    THEN Filter(df, [i \in 1..Len(df.data) |-> Col(df, AgeGroup)[i] # Str(all_ages)])
    ELSE df

\* prep_bls, "Drop 'All ages'"
DropAllAges(df) ==
    IF HasCol(df, AgeGroup)
    THEN Filter(df, [i \in 1..Len(df.data) |->
                        str_lower(Col(df, AgeGroup)[i]) # Str(all_ages)])
    ELSE df

\* the monthly column as annual * 12
MonthlyFromAnnual_times12(df) ==
    IF HasCol(df, AvgAnnualSpend)
    THEN SetCol(df, AvgMonthlySpend,
             [i \in 1..Len(df.data) |->
                 LET a == to_numeric(Col(df, AvgAnnualSpend)[i])
                 IN  IF isna(a) THEN NaN ELSE NumDiv(a, Num(1, 12))])
    ELSE df

\* prep_bls, "Monthly from annual"
MonthlyFromAnnual(df) ==
    IF HasCol(df, AvgAnnualSpend)
    THEN SetCol(df, AvgMonthlySpend,
             [i \in 1..Len(df.data) |->
                 LET a == to_numeric(Col(df, AvgAnnualSpend)[i])
                 IN  IF isna(a) THEN NaN ELSE NumDiv(a, Num(12, 1))])
    ELSE df

\* the categorical column without the sort_values call
OrderByAge_unsorted(df) ==
    IF HasCol(df, AgeGroup)
    THEN {SetCol(df, AgeGroup, Categorical(Col(df, AgeGroup), age_order))}
    ELSE {df}

\* prep_bls, "Order"
OrderByAge(df) ==
    IF HasCol(df, AgeGroup)
    THEN sort_values(SetCol(df, AgeGroup, Categorical(Col(df, AgeGroup), age_order)),
                     codes(Categorical(Col(df, AgeGroup), age_order), age_order))
    ELSE {df}

prep_bls(bls_in) ==
    IF empty(bls_in) THEN {Ok(bls_in)}
    ELSE LET df == rename(bls_in, {<<age_group, AgeGroup>>,
                                   <<avg_annual_spend_usd, AvgAnnualSpend>>})
         IN  IF HasCol(df, AgeGroup) /\ ~HasStrAccessor(df, AgeGroup)
             THEN {Raise("AttributeError")}
             ELSE {Ok(r) : r \in OrderByAge(MonthlyFromAnnual(DropAllAges(df)))}

\* prep_lottery without the dropna call
prep_lottery_keeps_nan(lot) ==
    IF empty(lot) THEN {Ok(lot)}
    ELSE LET df == rename(lot, {<<year_col, Year>>,
                                <<under30_lottery_pct, Under30LotteryPct>>,
                                <<source_col, Source>>})
         IN  IF ~HasCol(df, Year) \/ ~HasCol(df, Under30LotteryPct)
             THEN {Raise("KeyError")}
             ELSE LET df1 == SetCol(df, Year,
                                 [i \in 1..Len(df.data) |-> to_numeric(Col(df, Year)[i])])
                      df2 == SetCol(df1, Under30LotteryPct,
                                 [i \in 1..Len(df.data) |->
                                     to_numeric(Col(df1, Under30LotteryPct)[i])])
                  IN  {Ok(r) : r \in sort_values(df2, Col(df2, Year))}

prep_lottery(lot) ==
    IF empty(lot) THEN {Ok(lot)}
    ELSE LET df == rename(lot, {<<year_col, Year>>,
                                <<under30_lottery_pct, Under30LotteryPct>>,
                                <<source_col, Source>>})
         IN  IF ~HasCol(df, Year) \/ ~HasCol(df, Under30LotteryPct)
             THEN {Raise("KeyError")}
             ELSE LET df1 == SetCol(df, Year,
                                 [i \in 1..Len(df.data) |-> to_numeric(Col(df, Year)[i])])
                      df2 == SetCol(df1, Under30LotteryPct,
                                 [i \in 1..Len(df.data) |->
                                     to_numeric(Col(df1, Under30LotteryPct)[i])])
                      df3 == dropna(df2, <<Year, Under30LotteryPct>>)
                  IN  {Ok(r) : r \in sort_values(df3, Col(df3, Year))}

prep_crypto(cdf) ==
    IF empty(cdf) THEN {Ok(cdf)}
    ELSE LET df == rename(cdf, {<<year_col, Year>>,
                                <<under30_crypto_pct, Under30CryptoPct>>,
                                <<source_col, Source>>})
         IN  IF ~HasCol(df, Year) \/ ~HasCol(df, Under30CryptoPct)
             THEN {Raise("KeyError")}
             ELSE LET df1 == SetCol(df, Year,
                                 [i \in 1..Len(df.data) |-> to_numeric(Col(df, Year)[i])])
                      df2 == SetCol(df1, Under30CryptoPct,
                                 [i \in 1..Len(df.data) |->
                                     to_numeric(Col(df1, Under30CryptoPct)[i])])
                      df3 == dropna(df2, <<Year, Under30CryptoPct>>)
                  IN  {Ok(r) : r \in sort_values(df3, Col(df3, Year))}

\* to_csv(index=False, header=False)
df_csv_bytes_no_header(df) == [header |-> <<>>, records |-> df.data]

(***************************************************************************)
(* Export: df.to_csv(index=False), a header row and the rows without the   *)
(* index.                                                                  *)
(***************************************************************************)
df_csv_bytes(df) == [header |-> df.columns, records |-> df.data]

HasAll(df, names) == \A j \in 1..Len(names) : HasCol(df, names[j])

BlsExportColumns == <<AgeGroup, AvgAnnualSpend, AvgMonthlySpend, year_col, source_col>>

LotteryExportColumns == <<Year, Under30LotteryPct, Source>>

CryptoExportColumns == <<Year, Under30CryptoPct, Source>>

(***************************************************************************)
(* What each data section puts on the page for a shaped table: the         *)
(* elements shown, the download offered, and whether an exception ends     *)
(* the run there.                                                          *)
(***************************************************************************)
Shown(els, dl, raised) == [shown |-> els, downloads |-> dl, raised |-> raised]

Download(sec, df) == [sec |-> sec, csv |-> df_csv_bytes(df)]

\* the text astype(str) gives a missing value
nan_text == <<"n","a","n">>

\* Series.astype(str) on the categorical column: the label, 'nan' for a
\* missing one
astype_str(v) == IF isna(v) THEN nan_text ELSE v.s

\* the x values of the BLS bar chart, bls_df["AgeGroup"].astype(str)
BlsChartX(df) == [i \in 1..Len(df.data) |-> astype_str(Col(df, AgeGroup)[i])]

\* the BLS bar chart, caption and download button, or the warning
BlsRender(df) ==
    IF empty(df)
    THEN Shown(<<El("bls", "warning", "bls")>>, <<>>, FALSE)
    ELSE IF ~HasAll(df, <<AgeGroup, AvgMonthlySpend>>)
    THEN Shown(<<El("bls", "exception", "bls")>>, <<>>, TRUE)
    ELSE IF ~HasAll(df, BlsExportColumns)
    THEN Shown(<<El("bls", "chart", "bls"), El("bls", "caption", "bls"),
                 El("bls", "exception", "bls")>>, <<>>, TRUE)
    ELSE Shown(<<El("bls", "chart", "bls"), El("bls", "caption", "bls"),
                 El("bls", "download", "bls")>>,
               <<Download("bls", rename(Select(df, BlsExportColumns),
                                        {<<year_col, Year>>, <<source_col, Source>>}))>>,
               FALSE)

\* the Gallup line chart, caption and download button, or the warning
GallupRender(df) ==
    IF empty(df)
    THEN Shown(<<El("gallup", "warning", "lottery")>>, <<>>, FALSE)
    ELSE IF ~HasAll(df, <<Year, Under30LotteryPct>>)
    THEN Shown(<<El("gallup", "exception", "lottery")>>, <<>>, TRUE)
    ELSE IF ~HasAll(df, LotteryExportColumns)
    THEN Shown(<<El("gallup", "chart", "lottery"), El("gallup", "caption", "lottery"),
                 El("gallup", "exception", "lottery")>>, <<>>, TRUE)
    ELSE Shown(<<El("gallup", "chart", "lottery"), El("gallup", "caption", "lottery"),
                 El("gallup", "download", "lottery")>>,
               <<Download("gallup", Select(df, LotteryExportColumns))>>,
               FALSE)

\* the crypto line chart, caption and download button, or the warning
CryptoRender(df) ==
    IF empty(df)
    THEN Shown(<<El("crypto", "warning", "crypto")>>, <<>>, FALSE)
    ELSE IF ~HasAll(df, <<Year, Under30CryptoPct>>)
    THEN Shown(<<El("crypto", "exception", "crypto")>>, <<>>, TRUE)
    ELSE IF ~HasAll(df, CryptoExportColumns)
    THEN Shown(<<El("crypto", "chart", "crypto"), El("crypto", "caption", "crypto"),
                 El("crypto", "exception", "crypto")>>, <<>>, TRUE)
    ELSE Shown(<<El("crypto", "chart", "crypto"), El("crypto", "caption", "crypto"),
                 El("crypto", "download", "crypto")>>,
               <<Download("crypto", Select(df, CryptoExportColumns))>>,
               FALSE)

(***************************************************************************)
(* Concentration section: the year slider, the selector inside try/except  *)
(* and the donut.                                                          *)
(***************************************************************************)
\* int(v) of a number
IntPart(v) == v.n \div v.d

NumericYears(df) ==
    {Col(df, year_col)[i] : i \in {h \in 1..Len(df.data) : Col(df, year_col)[h].k = "num"}}

year_min(df) ==
    IntPart(CHOOSE v \in NumericYears(df) : \A w \in NumericYears(df) : ~NumLess(w, v))

year_max(df) ==
    IntPart(CHOOSE v \in NumericYears(df) : \A w \in NumericYears(df) : ~NumLess(v, w))

\* st.slider("Select a year", lo, hi, hi): any year of the range may be the
\* one selected in this run.  With lo = hi the widget either shows the one
\* year or rejects the range, depending on the Streamlit release installed.
slider(lo, hi) ==
    {[raised |-> FALSE, value |-> y] : y \in lo..hi}
        \cup (IF lo = hi THEN {[raised |-> TRUE, value |-> hi]} ELSE {})

\* the rows of conc.loc[conc.year == y], as positions in file order
YearMatches(df, y) ==
    PositionsWhere([i \in 1..Len(df.data) |-> Col(df, year_col)[i] = Num(y, 1)],
                   Len(df.data))

\* the last matching position, .iloc[-1]
iloc_last(positions) == positions[Len(positions)]

\* the first matching position, .iloc[0]
iloc0(positions) == positions[1]

\* the body of the try block: pct, other and source, or the exception
Selector(df, y) ==
    IF ~HasCol(df, top_0_01_pct_ownership) THEN [raised |-> "KeyError"]
    ELSE IF YearMatches(df, y) = <<>> THEN [raised |-> "IndexError"]
    ELSE LET pct == Col(df, top_0_01_pct_ownership)[iloc0(YearMatches(df, y))]
         IN  IF pct.k = "str" THEN [raised |-> "TypeError"]
             ELSE IF ~HasCol(df, source_col) THEN [raised |-> "KeyError"]
             ELSE [raised |-> "",
                   pct    |-> pct,
                   other  |-> IF isna(pct) THEN NaN ELSE NumSub(Num(100, 1), pct),
                   source |-> Col(df, source_col)[iloc0(YearMatches(df, y))]]

ConcOutcome(els, st, y, donut, src) ==
    [shown |-> els, status |-> st, year |-> y, donut |-> donut, source |-> src]

NoYear == 0 - 1

\* the section for a selected year: st.error and st.stop() on an exception,
\* else the donut chart and its caption
ConcRender(df, y) ==
    LET sel == Selector(df, y)
    IN  IF sel.raised # ""
        THEN ConcOutcome(<<El("concentration", "slider", "conc"),
                           El("concentration", "error", "conc")>>,
                         "stopped", y, <<>>, NaN)
        ELSE ConcOutcome(<<El("concentration", "slider", "conc"),
                           El("concentration", "chart", "conc"),
                           El("concentration", "caption", "conc")>>,
                         "running", y, <<sel.pct, sel.other>>, sel.source)

\* everything the concentration section may do for a loaded table
ConcOutcomes(df) ==
    IF ~empty(df) /\ HasCol(df, year_col)
    THEN IF NumericYears(df) = {}
         THEN {ConcOutcome(<<El("concentration", "exception", "conc")>>,
                           "crashed", NoYear, <<>>, NaN)}
         ELSE {IF s.raised
               THEN ConcOutcome(<<El("concentration", "exception", "conc")>>,
                                "crashed", NoYear, <<>>, NaN)
               ELSE ConcRender(df, s.value) : s \in slider(year_min(df), year_max(df))}
    ELSE {ConcOutcome(<<El("concentration", "warning", "conc")>>,
                      "running", NoYear, <<>>, NaN)}

(***************************************************************************)
(* State of one page render.                                               *)
(***************************************************************************)
VARIABLES
    files,        \* the four input files, by dataset
    pc,           \* the section the script is at
    status,       \* "running", "done", "stopped" (st.stop) or "crashed"
    crypto_df, lottery_df, bls_raw, conc,    \* the loaded tables
    bls_df, lot_line, crypto_line,           \* the shaped tables
    year,         \* the year selected on the slider, NoYear before
    donut_df,     \* <<pct, other>> of the donut, <<>> before
    source,       \* the attributed source of the selected row
    page,         \* the elements shown so far, in page order
    downloads     \* the downloads offered so far

vars == <<files, pc, status, crypto_df, lottery_df, bls_raw, conc,
          bls_df, lot_line, crypto_line, year, donut_df, source, page, downloads>>

loaded == <<crypto_df, lottery_df, bls_raw, conc>>
shaped == <<bls_df, lot_line, crypto_line>>
selected == <<year, donut_df, source>>

InitRun ==
    /\ pc = "start"
    /\ status = "running"
    /\ crypto_df = EmptyDataFrame
    /\ lottery_df = EmptyDataFrame
    /\ bls_raw = EmptyDataFrame
    /\ conc = EmptyDataFrame
    /\ bls_df = EmptyDataFrame
    /\ lot_line = EmptyDataFrame
    /\ crypto_line = EmptyDataFrame
    /\ year = NoYear
    /\ donut_df = <<>>
    /\ source = NaN
    /\ page = <<>>
    /\ downloads = <<>>

\* a section that shows static content and moves on
Static(at, els, next) ==
    /\ pc = at
    /\ status = "running"
    /\ page' = page \o els
    /\ pc' = next
    /\ UNCHANGED <<files, status, loaded, shaped, selected, downloads>>

\* a data section: shape, keep the shaped table, render
Section(at, head, outcome, render, next) ==
    /\ pc = at
    /\ status = "running"
    /\ page' = page \o head \o (IF outcome.raised # ""
                                THEN <<El(at, "exception", "")>>
                                ELSE render.shown)
    /\ downloads' = downloads \o (IF outcome.raised # "" THEN <<>> ELSE render.downloads)
    /\ status' = IF outcome.raised # "" \/ render.raised THEN "crashed" ELSE "running"
    /\ pc' = IF outcome.raised # "" \/ render.raised THEN at ELSE next

\* page config and CRT styling
Styling == Static("start", <<El("style", "markdown", "")>>, "load")

\* "Load data": the three load_csv_safe calls
LoadData ==
    /\ pc = "load"
    /\ status = "running"
    /\ crypto_df' = load_csv_safe(files["crypto"], "crypto").df
    /\ lottery_df' = load_csv_safe(files["lottery"], "lottery").df
    /\ bls_raw' = load_csv_safe(files["bls"], "bls").df
    /\ page' = page \o load_csv_safe(files["crypto"], "crypto").shown
                    \o load_csv_safe(files["lottery"], "lottery").shown
                    \o load_csv_safe(files["bls"], "bls").shown
    /\ pc' = "sidebar"
    /\ UNCHANGED <<files, status, conc, shaped, selected, downloads>>

FileStatus(d, df) == El("sidebar", IF empty(df) THEN "Missing/Empty" ELSE "OK", d)

\* sidebar status and controls (glow and line style only restyle the charts)
Sidebar ==
    Static("sidebar",
           <<El("sidebar", "markdown", ""), El("sidebar", "caption", ""),
             FileStatus("crypto", crypto_df), FileStatus("lottery", lottery_df),
             FileStatus("bls", bls_raw), El("sidebar", "controls", "")>>,
           "header")

Header == Static("header", <<El("header", "markdown", "")>>, "bls")

\* "Lottery Era": prep_bls, then the bar chart or the warning
BlsSection ==
    /\ \E o \in prep_bls(bls_raw) :
        /\ Section("bls", <<El("bls", "markdown", "")>>, o, BlsRender(o.df), "gallup")
        /\ bls_df' = IF o.raised # "" THEN bls_df ELSE o.df
    /\ UNCHANGED <<files, loaded, lot_line, crypto_line, selected>>

\* "Gallup": prep_lottery, then the line chart or the warning
GallupSection ==
    /\ \E o \in prep_lottery(lottery_df) :
        /\ Section("gallup", <<El("gallup", "markdown", "")>>, o, GallupRender(o.df), "memo")
        /\ lot_line' = IF o.raised # "" THEN lot_line ELSE o.df
    /\ UNCHANGED <<files, loaded, bls_df, crypto_line, selected>>

TransitionMemo == Static("memo", <<El("memo", "markdown", "")>>, "crypto")

\* "Crypto Era": prep_crypto, then the line chart or the warning
CryptoSection ==
    /\ \E o \in prep_crypto(crypto_df) :
        /\ Section("crypto", <<El("crypto", "markdown", "")>>, o, CryptoRender(o.df),
                   "concentration")
        /\ crypto_line' = IF o.raised # "" THEN crypto_line ELSE o.df
    /\ UNCHANGED <<files, loaded, bls_df, lot_line, selected>>

\* "The New House": load_concentration, the slider, the selector, the donut
ConcentrationSection ==
    /\ pc = "concentration"
    /\ status = "running"
    /\ conc' = load_concentration(files["conc"]).df
    /\ \E o \in ConcOutcomes(load_concentration(files["conc"]).df) :
        /\ page' = page \o <<El("concentration", "markdown", ""),
                             El("concentration", "markdown", "")>>
                        \o load_concentration(files["conc"]).shown
                        \o o.shown
        /\ status' = o.status
        /\ pc' = IF o.status = "running" THEN "synthesis" ELSE "concentration"
        /\ year' = o.year
        /\ donut_df' = o.donut
        /\ source' = o.source
    /\ UNCHANGED <<files, crypto_df, lottery_df, bls_raw, shaped, downloads>>

SynthesisCard ==
    Static("synthesis",
           <<El("synthesis", "markdown", ""), El("synthesis", "markdown", "")>>,
           "closing")

ClosingReflection == Static("closing", <<El("closing", "markdown", "")>>, "footer")

\* the footer ends the script
Footer ==
    /\ pc = "footer"
    /\ status = "running"
    /\ page' = page \o <<El("footer", "markdown", ""), El("footer", "caption", "")>>
    /\ pc' = "end"
    /\ status' = "done"
    /\ UNCHANGED <<files, loaded, shaped, selected, downloads>>

Next ==
    \/ Styling
    \/ LoadData
    \/ Sidebar
    \/ Header
    \/ BlsSection
    \/ GallupSection
    \/ TransitionMemo
    \/ CryptoSection
    \/ ConcentrationSection
    \/ SynthesisCard
    \/ ClosingReflection
    \/ Footer

(***************************************************************************)
(* Inputs.                                                                 *)
(***************************************************************************)
SeqsUpTo(S, n) == UNION {[1..k -> S] : k \in 0..n}

ExpectedColumns(d) ==
    CASE d = "bls"     -> <<age_group, avg_annual_spend_usd, year_col, source_col>>
      [] d = "lottery" -> <<year_col, under30_lottery_pct, source_col>>
      [] d = "crypto"  -> <<year_col, under30_crypto_pct, source_col>>
      [] d = "conc"    -> <<year_col, top_0_01_pct_ownership, source_col>>

\* a file with every expected column and valid rows
OkFile(d) ==
    TableFile(ExpectedColumns(d),
        CASE d = "bls" ->
                 << <<Under25, d90_6, d2018, BLS>>,
                    <<AllAgesTitle, d500_0, d2018, BLS>>,
                    <<Age25to34, d483_84, d2018, BLS>> >>
          [] d = "lottery" ->
                 << <<d2007, d61, Gallup>>,
                    <<d2003, d57, Gallup>> >>
          [] d = "crypto" ->
                 << <<d2015, d2, Pew>>,
                    <<d2024, d28, Gemini>> >>
          [] d = "conc" ->
                 << <<d2015, d1_1, Pew>>,
                    <<d2017, d27_5, Finder>> >>)

HeaderOnly(d) == TableFile(ExpectedColumns(d), <<>>)

\* the file with spaces around every column name of its header
Padded(file) ==
    TableFile([j \in 1..Len(file.header) |-> <<" ">> \o file.header[j] \o <<" ">>],
              file.rows)

\* the file without its j-th column
WithoutColumn(file, j) ==
    LET drop(r) == SubSeq(r, 1, j - 1) \o SubSeq(r, j + 1, Len(r))
    IN  TableFile(drop(file.header), [i \in 1..Len(file.rows) |-> drop(file.rows[i])])

Failing == {Absent, ZeroByte, Unparseable}

PageFiles(d) ==
    Failing \cup {HeaderOnly(d), OkFile(d), Padded(OkFile(d))}
        \cup {WithoutColumn(OkFile(d), j) : j \in 1..Len(ExpectedColumns(d))}

MkFiles(c, l, b, k) ==
    [d \in Datasets |->
        CASE d = "crypto" -> c [] d = "lottery" -> l [] d = "bls" -> b [] d = "conc" -> k]

\* page renders over every combination of file conditions
Init ==
    /\ \E c \in PageFiles("crypto"), l \in PageFiles("lottery"),
          b \in PageFiles("bls"), k \in PageFiles("conc") :
            files = MkFiles(c, l, b, k)
    /\ InitRun

Spec == Init /\ [][Next]_vars

\* spend-by-age rows: labels of the fixed set (any order, any repetition),
\* "all ages" in three casings, a label outside the set, a missing
\* label, and an annual spend that is not a number
BlsRows ==
    { <<Under25, d90_6, d2018, BLS>>,
      <<Age25to34, d483_84, d2018, BLS>>,
      <<Age75plus, abc, d2018, BLS>>,
      <<AllAgesTitle, d500_0, d2018, BLS>>,
      <<AllAgesUpper, d36, d2018, BLS>>,
      <<AllAgesMixed, d36, d2018, BLS>>,
      <<Age18to24, d36, d2018, BLS>>,
      <<<<>>, d36, d2018, BLS>> }

BlsTables == {TableFile(ExpectedColumns("bls"), r) : r \in SeqsUpTo(BlsRows, MaxRows)}

\* page renders over spend-by-age tables, the other files valid
InitBls ==
    /\ \E b \in BlsTables :
            files = MkFiles(OkFile("crypto"), OkFile("lottery"), b, OkFile("conc"))
    /\ InitRun

SpecBls == InitBls /\ [][Next]_vars

\* percent-series rows <<year, percentage, source>>: years out of order and
\* repeated, text and missing values in either column
PctRows ==
    { <<d2007, d61, Gallup>>,
      <<d2003, d61, Pew>>,
      <<d2016, abc, Gallup>>,
      <<abc, d57, Gallup>>,
      <<<<>>, d61, Gallup>>,
      <<d2016, <<>>, Pew>> }

PctTables(d) == {TableFile(ExpectedColumns(d), r) : r \in SeqsUpTo(PctRows, MaxRows)}

\* page renders over participation tables and over ownership tables
InitPct ==
    /\ \E t \in PctTables("lottery") \cup PctTables("crypto") :
            files = MkFiles(IF t.header = ExpectedColumns("crypto") THEN t ELSE OkFile("crypto"),
                            IF t.header = ExpectedColumns("lottery") THEN t ELSE OkFile("lottery"),
                            OkFile("bls"), OkFile("conc"))
    /\ InitRun

SpecPct == InitPct /\ [][Next]_vars

\* concentration rows <<year, top percentage, source>>: a repeated year with
\* different values and sources, a text value and a missing value
ConcRows ==
    { <<d2015, d1_1, Pew>>,
      <<d2015, d27_5, Finder>>,
      <<d2024, d27_5, Pew>>,
      <<d2016, abc, Gemini>>,
      <<d2017, <<>>, Gemini>> }

ConcTables == {TableFile(ExpectedColumns("conc"), r) : r \in SeqsUpTo(ConcRows, MaxRows)}

\* page renders over concentration tables, the other files valid
InitConc ==
    /\ \E k \in ConcTables :
            files = MkFiles(OkFile("crypto"), OkFile("lottery"), OkFile("bls"), k)
    /\ InitRun

SpecConc == InitConc /\ [][Next]_vars

(***************************************************************************)
(* Vocabulary of the properties.                                           *)
(***************************************************************************)
ScriptOrder ==
    <<"start", "load", "sidebar", "header", "bls", "gallup", "memo", "crypto",
      "concentration", "synthesis", "closing", "footer", "end">>

At(p) == CHOOSE i \in 1..Len(ScriptOrder) : ScriptOrder[i] = p

\* the script has run section sec to its end
Past(sec) == At(pc) > At(sec)

\* the run is over: the footer was reached, or st.stop() or an exception ended it
Over == status # "running"

ShownIn(sec, kind) == \E i \in 1..Len(page) : page[i].sec = sec /\ page[i].kind = kind

DiagnosticFor(d) ==
    \E i \in 1..Len(page) :
        page[i].of = d /\ page[i].kind \in {"error", "warning"}
            /\ page[i].sec = (IF d = "conc" THEN "concentration" ELSE "load")

SectionOf(d) ==
    CASE d = "bls" -> "bls" [] d = "lottery" -> "gallup"
      [] d = "crypto" -> "crypto" [] d = "conc" -> "concentration"

LoadedTable(d) ==
    CASE d = "bls" -> bls_raw [] d = "lottery" -> lottery_df
      [] d = "crypto" -> crypto_df [] d = "conc" -> conc

\* the static sections that follow the concentration section
TailRendered ==
    /\ ShownIn("synthesis", "markdown")
    /\ ShownIn("closing", "markdown")
    /\ ShownIn("footer", "caption")

\* a table file with rows whose header, as written, has every expected column
WellFormed(d) ==
    /\ files[d].kind = "table"
    /\ files[d].rows # <<>>
    /\ \A j \in 1..Len(ExpectedColumns(d)) :
          \E h \in 1..Len(files[d].header) : files[d].header[h] = ExpectedColumns(d)[j]

\* a table file with rows that lacks an expected column, however spaced
MissingColumns(d) ==
    /\ files[d].kind = "table"
    /\ files[d].rows # <<>>
    /\ \E j \in 1..Len(ExpectedColumns(d)) :
          \A h \in 1..Len(files[d].header) :
              Strip(files[d].header[h]) # ExpectedColumns(d)[j]

\* the selected year has no row in the loaded concentration table
NoMatchingRow ==
    /\ year # NoYear
    /\ HasCol(conc, year_col)
    /\ \A i \in 1..Len(conc.data) : Col(conc, year_col)[i] # Num(year, 1)

(***************************************************************************)
(* C1.  When the selected year has no matching row in the concentration    *)
(* table, an error is shown, no proportion chart is rendered, and only     *)
(* that section halts: the synthesis card, the closing reflection and the  *)
(* footer are still rendered.  The source calls st.stop(), which ends the  *)
(* whole run: the sections after it are never rendered.                    *)
(***************************************************************************)
C1_NoMatchHaltsSectionOnly ==
    (Over /\ NoMatchingRow) =>
        /\ ShownIn("concentration", "error")
        /\ ~ShownIn("concentration", "chart")
        /\ TailRendered

(***************************************************************************)
(* C2.  A file that parses as a non-empty table but lacks an expected      *)
(* column never causes an unhandled exception: its section shows a         *)
(* warning and no chart.  In the source the shaped table is not empty, so  *)
(* the chart or the shaper indexes the absent column and raises KeyError.  *)
(***************************************************************************)
C2_MissingColumnsDegrade ==
    \A d \in Datasets :
        MissingColumns(d) =>
            /\ ~(status = "crashed" /\ pc = SectionOf(d))
            /\ Past(SectionOf(d)) =>
                  /\ ShownIn(SectionOf(d), "warning")
                  /\ ~ShownIn(SectionOf(d), "chart")

(***************************************************************************)
(* C3.  For every input file that is absent, empty (zero bytes) or         *)
(* unparseable the loader returns an empty table and shows a diagnostic;   *)
(* the run does not end in that file's section, which shows a warning and  *)
(* no chart; and when the other files are well formed every other section  *)
(* renders: the run reaches the footer with a chart for each of them.      *)
(***************************************************************************)
OthersRender(d) ==
    \A e \in Datasets \ {d} :
        /\ ShownIn(SectionOf(e), "chart")
        /\ ~ShownIn(SectionOf(e), "warning")

C3_BadFileDegrades ==
    \A d \in Datasets :
        files[d] \in Failing =>
            /\ (Past("load") /\ d # "conc") => (empty(LoadedTable(d)) /\ DiagnosticFor(d))
            /\ ~(Over /\ status # "done" /\ pc = SectionOf(d))
            /\ Past(SectionOf(d)) =>
                  /\ empty(LoadedTable(d))
                  /\ DiagnosticFor(d)
                  /\ ShownIn(SectionOf(d), "warning")
                  /\ ~ShownIn(SectionOf(d), "chart")
                  /\ ~ShownIn(SectionOf(d), "download")
            /\ ((\A e \in Datasets \ {d} : WellFormed(e)) /\ ~NoMatchingRow) =>
                  /\ status \in {"running", "done"}
                  /\ status = "done" => (OthersRender(d) /\ TailRendered)

\* the participation file is zero bytes long, the others are valid, and the
\* run has reached the footer
C3_Witness ==
    /\ status = "done"
    /\ files["lottery"] = ZeroByte
    /\ \A e \in Datasets \ {"lottery"} : files[e] = OkFile(e)
    /\ ShownIn("gallup", "warning")
    /\ ShownIn("load", "error")
    /\ OthersRender("lottery")

(***************************************************************************)
(* C4.  Every loaded table has passed through the column normalizer: no    *)
(* column name of any of the four loaded tables has leading or trailing    *)
(* whitespace.  load_concentration returns the table as read, so a         *)
(* concentration header ' year ' stays padded and is not recognised.       *)
(***************************************************************************)
Normalized(df) == \A j \in 1..Len(df.columns) : Strip(df.columns[j]) = df.columns[j]

C4_ColumnsNormalized ==
    /\ Past("load") => (Normalized(crypto_df) /\ Normalized(lottery_df) /\ Normalized(bls_raw))
    /\ Normalized(conc)

\* the selector has produced both slices and the three shapers a table each
AllShaped ==
    /\ ~empty(bls_df)
    /\ ~empty(lot_line)
    /\ ~empty(crypto_line)
    /\ donut_df # <<>>

DownloadFor(d, header) ==
    \E i \in 1..Len(downloads) :
        downloads[i].sec = SectionOf(d) /\ downloads[i].csv.header = header

(***************************************************************************)
(* C5 as stated.  When all four datasets load and shape, the page offers   *)
(* four downloads, one per dataset, the concentration dataset included.    *)
(***************************************************************************)
C5_FourDownloads ==
    (status = "done" /\ AllShaped) =>
        \A d \in Datasets : \E i \in 1..Len(downloads) : downloads[i].sec = SectionOf(d)

(***************************************************************************)
(* C5 as amended.  When all four datasets load and shape, the page offers  *)
(* exactly three downloads, for spend, participation and ownership, each   *)
(* with canonical column names in its header row; no download is ever      *)
(* offered for the concentration dataset.                                  *)
(***************************************************************************)
C5_ThreeDownloads ==
    /\ \A i \in 1..Len(downloads) : downloads[i].sec # "concentration"
    /\ (status = "done" /\ AllShaped) =>
          /\ Len(downloads) = 3
          /\ DownloadFor("bls", <<AgeGroup, AvgAnnualSpend, AvgMonthlySpend, Year, Source>>)
          /\ DownloadFor("lottery", <<Year, Under30LotteryPct, Source>>)
          /\ DownloadFor("crypto", <<Year, Under30CryptoPct, Source>>)

\* a finished run in which all four datasets shaped and the downloads are offered
C5_Witness ==
    /\ status = "done"
    /\ AllShaped
    /\ ShownIn("concentration", "chart")
    /\ Len(downloads) = 3

(***************************************************************************)
(* C6.  Percent-series shaper (prep_lottery, prep_crypto), for a non-empty *)
(* input with the expected columns: the output is in non-decreasing order  *)
(* of Year; a row is in the output exactly when its year and its metric    *)
(* are both numbers (a row with text or a missing value in either is       *)
(* absent), once, with its parsed values and its source untouched.         *)
(***************************************************************************)
RawRows(d) == files[d].rows

NumericCell(c) == c # <<>> /\ IsNumeric(c)

PercentSeriesShaped(d, out, metric) ==
    LET n == Len(RawRows(d))
        valid(x) == NumericCell(RawRows(d)[x + 1][1]) /\ NumericCell(RawRows(d)[x + 1][2])
    IN  /\ HasAll(out, <<Year, metric, Source>>)
        /\ \A i \in 1..Len(out.data) :
              /\ out.index[i] \in 0..(n - 1)
              /\ valid(out.index[i])
              /\ Col(out, Year)[i] = ParseNum(RawRows(d)[out.index[i] + 1][1])
              /\ Col(out, metric)[i] = ParseNum(RawRows(d)[out.index[i] + 1][2])
              /\ Col(out, Source)[i] = Str(RawRows(d)[out.index[i] + 1][3])
        /\ \A i, j \in 1..Len(out.data) :
              i < j => /\ ~NumLess(Col(out, Year)[j], Col(out, Year)[i])
                       /\ out.index[i] # out.index[j]
        /\ \A x \in 0..(n - 1) :
              valid(x) => \E i \in 1..Len(out.data) : out.index[i] = x

C6_PercentSeriesSortedAndClean ==
    /\ (Past("gallup") /\ ~empty(lottery_df)) =>
          PercentSeriesShaped("lottery", lot_line, Under30LotteryPct)
    /\ (Past("crypto") /\ ~empty(crypto_df)) =>
          PercentSeriesShaped("crypto", crypto_line, Under30CryptoPct)

\* a participation table given as 2007, a text year, 2003: the text row is
\* dropped and the two others come out as 2003, 2007
C6_Witness ==
    /\ Past("gallup")
    /\ Len(RawRows("lottery")) = 3
    /\ ~NumericCell(RawRows("lottery")[2][1])
    /\ lot_line.index = <<2, 0>>
    /\ Col(lot_line, Year) = <<Num(2003, 1), Num(2007, 1)>>

(***************************************************************************)
(* C7.  Spend shaper: no output row has an age-group label equal to        *)
(* "all ages" under case-insensitive comparison, and every other input row *)
(* is retained, once.                                                      *)
(***************************************************************************)
IsAllAges(label) == Lower(label) = all_ages

\* prep_bls ran to its end on a non-empty table
BlsShaped == Past("bls") /\ ~empty(bls_raw)

C7_AllAgesDropped ==
    BlsShaped =>
        LET n == Len(RawRows("bls"))
        IN  /\ \A i \in 1..Len(bls_df.data) :
                  /\ bls_df.index[i] \in 0..(n - 1)
                  /\ ~IsAllAges(RawRows("bls")[bls_df.index[i] + 1][1])
                  /\ Col(bls_df, AgeGroup)[i].k = "str" =>
                        ~IsAllAges(Col(bls_df, AgeGroup)[i].s)
            /\ \A i, j \in 1..Len(bls_df.data) : i # j => bls_df.index[i] # bls_df.index[j]
            /\ \A x \in 0..(n - 1) :
                  ~IsAllAges(RawRows("bls")[x + 1][1]) =>
                      \E i \in 1..Len(bls_df.data) : bls_df.index[i] = x

\* an input with 'ALL AGES' and 'all Ages' rows and one other row: only the
\* other row is in the output
C7_Witness ==
    /\ BlsShaped
    /\ Len(RawRows("bls")) = 3
    /\ RawRows("bls")[1][1] = AllAgesUpper
    /\ RawRows("bls")[2][1] = AllAgesMixed
    /\ RawRows("bls")[3][1] = Under25
    /\ bls_df.index = <<2>>

(***************************************************************************)
(* C8.  Spend shaper: every retained row keeps its own annual spend, and   *)
(* where that is a number its AvgMonthlySpend is that number divided by 12 *)
(* (90.6 gives 7.55, 483.84 gives 40.32), whatever the filtering and the   *)
(* sorting did to the row's position.                                      *)
(***************************************************************************)
C8_MonthlyIsAnnualOver12 ==
    BlsShaped =>
        \A i \in 1..Len(bls_df.data) :
            LET cell    == RawRows("bls")[bls_df.index[i] + 1][2]
                annual  == Col(bls_df, AvgAnnualSpend)[i]
                monthly == Col(bls_df, AvgMonthlySpend)[i]
            IN  /\ annual = Col(bls_raw, avg_annual_spend_usd)[bls_df.index[i] + 1]
                /\ NumericCell(cell) =>
                      /\ monthly.k = "num"
                      /\ monthly.n * 12 * ParseNum(cell).d = ParseNum(cell).n * monthly.d
                /\ (cell = d90_6) => monthly = Num(755, 100)
                /\ (cell = d483_84) => monthly = Num(4032, 100)

\* the rows (25-34, 483.84), (All ages, 500.0), (Under 25, 90.6) in that
\* order: the two retained rows swap places and carry 7.55 and 40.32
C8_Witness ==
    /\ BlsShaped
    /\ bls_df.index = <<2, 0>>
    /\ RawRows("bls")[2][1] = AllAgesTitle
    /\ Col(bls_df, AvgAnnualSpend) = <<Num(906, 10), Num(48384, 100)>>
    /\ Col(bls_df, AvgMonthlySpend) = <<Num(755, 100), Num(4032, 100)>>

(***************************************************************************)
(* C9.  Spend shaper: when every input label is of the fixed set (or is    *)
(* "all ages"), in any input order, the retained rows come out in the      *)
(* order Under 25, 25-34, 35-44, 45-54, 55-64, 65-74, 75+, each under its  *)
(* own label; the rows (Under 25, 90.6), (25-34, 483.84), (All ages,       *)
(* 500.0), in any order, give exactly Under 25 and then 25-34.             *)
(***************************************************************************)
InAgeOrder(label) == \E c \in 1..Len(age_order) : age_order[c] = label

RankOf(label) == CHOOSE c \in 1..Len(age_order) : age_order[c] = label

ScenarioRows ==
    { <<Under25, d90_6, d2018, BLS>>,
      <<Age25to34, d483_84, d2018, BLS>>,
      <<AllAgesTitle, d500_0, d2018, BLS>> }

C9_FixedAgeOrder ==
    /\ (BlsShaped /\ \A x \in 1..Len(RawRows("bls")) :
                        InAgeOrder(RawRows("bls")[x][1]) \/ IsAllAges(RawRows("bls")[x][1])) =>
          /\ \A i \in 1..Len(bls_df.data) :
                Col(bls_df, AgeGroup)[i] = Str(RawRows("bls")[bls_df.index[i] + 1][1])
          /\ \A i, j \in 1..Len(bls_df.data) :
                i < j => RankOf(Col(bls_df, AgeGroup)[i].s) <= RankOf(Col(bls_df, AgeGroup)[j].s)
    /\ (BlsShaped /\ Len(RawRows("bls")) = 3
            /\ {RawRows("bls")[x] : x \in 1..3} = ScenarioRows) =>
          /\ Col(bls_df, AgeGroup) = <<Str(Under25), Str(Age25to34)>>
          /\ Col(bls_df, AvgMonthlySpend) = <<Num(755, 100), Num(4032, 100)>>

\* the scenario rows given as 25-34, All ages, Under 25
C9_Witness ==
    /\ BlsShaped
    /\ Len(RawRows("bls")) = 3
    /\ {RawRows("bls")[x] : x \in 1..3} = ScenarioRows
    /\ RawRows("bls")[1][1] = Age25to34
    /\ Len(bls_df.data) = 2
    /\ Col(bls_df, AgeGroup)[1] = Str(Under25)

(***************************************************************************)
(* C10.  Concentration selector: for a selected year present in the table  *)
(* (with a numeric percentage), the donut holds the two slices (top,       *)
(* 100 - top), which sum to exactly 100, where top is the value of the     *)
(* first row in file order whose year is the selected year, and the        *)
(* attributed source is that same row's.                                   *)
(***************************************************************************)
NumAdd(a, b) == Num(a.n * b.d + b.n * a.d, a.d * b.d)

FirstRowOf(y) ==
    CHOOSE i \in 1..Len(conc.data) :
        /\ Col(conc, year_col)[i] = Num(y, 1)
        /\ \A h \in 1..(i - 1) : Col(conc, year_col)[h] # Num(y, 1)

C10_FirstMatchSplitsTo100 ==
    (year # NoYear /\ ~NoMatchingRow
        /\ Col(conc, top_0_01_pct_ownership)[FirstRowOf(year)].k = "num") =>
        LET top == Col(conc, top_0_01_pct_ownership)[FirstRowOf(year)]
        IN  /\ status # "stopped"
            /\ ShownIn("concentration", "chart")
            /\ Len(donut_df) = 2
            /\ donut_df[1] = top
            /\ donut_df[2].k = "num"
            /\ donut_df[2].n * top.d = (100 * top.d - top.n) * donut_df[2].d
            /\ NumAdd(donut_df[1], donut_df[2]) = Num(100, 1)
            /\ source = Col(conc, source_col)[FirstRowOf(year)]

\* two rows for 2015 (1.1 from Pew, then 27.5 from Finder) and 2015 selected
C10_Witness ==
    /\ year = 2015
    /\ Len(conc.data) >= 2
    /\ Col(conc, year_col)[1] = Num(2015, 1)
    /\ Col(conc, year_col)[2] = Num(2015, 1)
    /\ Col(conc, top_0_01_pct_ownership)[2] = Num(275, 10)
    /\ donut_df = <<Num(11, 10), Num(989, 10)>>
    /\ source = Str(Pew)

(***************************************************************************)
(* C11.  Spend shaper: a row whose age-group label is not of the fixed set *)
(* and is not "all ages" is retained, once; its AgeGroup is a missing      *)
(* value (the label text is gone), the bar chart shows it under 'nan', and *)
(* it stands after every row whose label is of the fixed set.              *)
(***************************************************************************)
Unmapped(label) == ~InAgeOrder(label) /\ ~IsAllAges(label)

\* the input label of the i-th output row
LabelOf(i) == RawRows("bls")[bls_df.index[i] + 1][1]

C11_UnmappedKeptLast ==
    BlsShaped =>
        /\ \A x \in 1..Len(RawRows("bls")) :
              Unmapped(RawRows("bls")[x][1]) =>
                  Cardinality({i \in 1..Len(bls_df.data) : bls_df.index[i] = x - 1}) = 1
        /\ \A i \in 1..Len(bls_df.data) :
              Unmapped(LabelOf(i)) =>
                  /\ isna(Col(bls_df, AgeGroup)[i])
                  /\ BlsChartX(bls_df)[i] = nan_text
                  /\ \A j \in 1..Len(bls_df.data) : InAgeOrder(LabelOf(j)) => j < i
        /\ Len(bls_df.data) > 0 => ShownIn("bls", "chart")

\* the rows 18-24, Under 25, 25-34 in that order: the 18-24 row goes last,
\* without its label, and is charted as 'nan'
C11_Witness ==
    /\ BlsShaped
    /\ Len(RawRows("bls")) = 3
    /\ RawRows("bls")[1][1] = Age18to24
    /\ RawRows("bls")[2][1] = Under25
    /\ RawRows("bls")[3][1] = Age25to34
    /\ bls_df.index = <<1, 2, 0>>
    /\ Col(bls_df, AgeGroup) = <<Str(Under25), Str(Age25to34), NaN>>
    /\ BlsChartX(bls_df) = <<Under25, Age25to34, nan_text>>
    /\ ShownIn("bls", "chart")

====
